---- MODULE Spec2Model ----
(***************************************************************************)
(* State-machine model of the GazeOverlay React component                  *)
(* (apps/web/src/components/gaze-overlay.tsx).                             *)
(*                                                                         *)
(* React state (enabled, position), the five refs, localStorage, the live  *)
(* interval timers, the fetches in flight and the class lists of the DOM   *)
(* elements are the variables.  Every event-loop task is one action: a     *)
(* storage notification, an interval tick, the continuation of a fetch, a  *)
(* key-down, and the commit of the effects that depend on [enabled].       *)
(* setEnabled only records the new state value; the effects of the [enabled]*)
(* dependency run in a later task (RunEffects), so ticks and fetch         *)
(* continuations can run in between, as they can in the browser.           *)
(*                                                                         *)
(* Numbers are JavaScript numbers restricted to NaN, +Infinity, -Infinity  *)
(* and exact rationals (binary64 rounding of finite values is not          *)
(* modelled).                                                              *)
(***************************************************************************)
EXTENDS Integers, Sequences, FiniteSets, TLC

(* ------------------------------ bounds --------------------------------- *)
\* Total number of fetches the model lets the component start.
MaxFetches == 3
\* Total number of poll-loop instances (runs of the enabling effect).
MaxLoops == 2

(* ------------------------- JavaScript numbers -------------------------- *)
Abs(i) == IF i < 0 THEN -i ELSE i

RECURSIVE Gcd(_, _)
Gcd(a, b) == IF b = 0 THEN a ELSE Gcd(b, a % b)

NaN == [k |-> "nan", n |-> 0, d |-> 1]
PInf == [k |-> "pinf", n |-> 0, d |-> 1]
NInf == [k |-> "ninf", n |-> 0, d |-> 1]

\* The rational n/d (d > 0) in lowest terms.
Rat(n, d) ==
    LET g == Gcd(Abs(n), d)
    IN  [k |-> "fin", n |-> n \div g, d |-> d \div g]

Int2Num(i) == Rat(i, 1)

IsNaN(a) == a.k = "nan"
IsFinite(a) == a.k = "fin"

\* Sign of a non-NaN number: -1, 0 or 1.
Sgn(a) ==
    CASE a.k = "pinf" -> 1
      [] a.k = "ninf" -> -1
      [] OTHER -> IF a.n > 0 THEN 1 ELSE IF a.n < 0 THEN -1 ELSE 0

\* a * b
Mul(a, b) ==
    IF IsNaN(a) \/ IsNaN(b) THEN NaN
    ELSE IF IsFinite(a) /\ IsFinite(b) THEN Rat(a.n * b.n, a.d * b.d)
    ELSE IF Sgn(a) * Sgn(b) = 0 THEN NaN
    ELSE IF Sgn(a) * Sgn(b) > 0 THEN PInf ELSE NInf

\* a / b
Div(a, b) ==
    IF IsNaN(a) \/ IsNaN(b) THEN NaN
    ELSE IF IsFinite(a) /\ IsFinite(b) THEN
        IF b.n = 0
        THEN IF a.n = 0 THEN NaN ELSE IF a.n > 0 THEN PInf ELSE NInf
        ELSE IF b.n > 0 THEN Rat(a.n * b.d, a.d * b.n)
        ELSE Rat(-(a.n * b.d), a.d * (-b.n))
    ELSE IF IsFinite(b) THEN (IF Sgn(a) * Sgn(b) >= 0 THEN a ELSE IF a.k = "pinf" THEN NInf ELSE PInf)
    ELSE IF IsFinite(a) THEN Int2Num(0)
    ELSE NaN

\* a < b for non-NaN numbers
Less(a, b) ==
    IF a.k = "ninf" THEN b.k # "ninf"
    ELSE IF a.k = "pinf" THEN FALSE
    ELSE IF b.k = "pinf" THEN TRUE
    ELSE IF b.k = "ninf" THEN FALSE
    ELSE a.n * b.d < b.n * a.d

Leq(a, b) == a = b \/ Less(a, b)

\* Math.min / Math.max of two numbers
MathMin(a, b) == IF IsNaN(a) \/ IsNaN(b) THEN NaN ELSE IF Less(b, a) THEN b ELSE a
MathMax(a, b) == IF IsNaN(a) \/ IsNaN(b) THEN NaN ELSE IF Less(a, b) THEN b ELSE a

(* --------------------------- values and nulls -------------------------- *)
\* null of a DotPosition, of a Calibration, of a coordinate pair
NoPosition == [null |-> TRUE]
NoCalibration == [null |-> TRUE]
Absent == [null |-> TRUE]
\* null of an element reference, of a timer id, of a stored string
NULL == "null"

Point(x, y) == [x |-> x, y |-> y]
Cal(w, h) == [width |-> w, height |-> h]

\* The margin of the clamp, in pixels.
Margin == 12


(* ------------------------------ inputs --------------------------------- *)
\* The DOM elements carrying data-gaze-activate.
Elements == {"e1", "e2"}

\* Values the settings UI stores under eye-tracker-backend-url.
GoodUrl == "http://backend:5000"
BackendValues == {GoodUrl}

\* Values stored under eye-tracker-calibration: two JSON texts and one text
\* that is no JSON.
CalJsonA == "{\"width\":1280,\"height\":720}"
CalJsonZero == "{\"width\":0,\"height\":720}"
CalGarbage == "{width:"
CalibrationValues == {CalJsonA, CalGarbage}

\* Values stored under eye-tracker-overlay-enabled.
EnabledValues == {"true", "false"}

\* JSON.parse on the stored calibration texts: the decoded value, or a throw.
JSONParse(raw) ==
    CASE raw = CalJsonA -> [ok |-> TRUE, value |-> Cal(Int2Num(1280), Int2Num(720))]
      [] raw = CalJsonZero -> [ok |-> TRUE, value |-> Cal(Int2Num(0), Int2Num(720))]
      [] OTHER -> [ok |-> FALSE, value |-> NoCalibration]

\* new URL("/api/gaze", base) throws a TypeError unless base is an absolute URL.
UrlThrows(base) == base # GoodUrl

\* Bodies of /api/gaze responses (after response.json()).
Sample(cp, np) == [calibrated_position |-> cp, normalized_pupil |-> np]
Samples ==
    { Sample(Point(Int2Num(640), Int2Num(360)), Absent),
      Sample(Point(Int2Num(640), Int2Num(360)), Point(Int2Num(0), Int2Num(0))),
      Sample(Absent, Point(Int2Num(0), Int2Num(0))),
      Sample(Absent, Absent) }

\* window.innerWidth x window.innerHeight
Viewports == { <<1920, 1080>> }

\* Keyboard events: code and key.
KeyEvents ==
    { [code |-> "Space", key |-> " "],
      [code |-> "Escape", key |-> "Escape"],
      [code |-> "KeyA", key |-> "a"] }
\* tagName of event.target
TargetTags == {"INPUT", "TEXTAREA", "BUTTON"}

(* ------------------------------- state --------------------------------- *)
VARIABLES
    phase,           \* "init" (constructed), "mounted", "unmounted"
    ls,              \* localStorage: backend, calibration, enabled (NULL = no item)
    enabled,         \* useState(false)
    position,        \* useState<DotPosition>(null)
    effEnabled,      \* value of enabled the committed [enabled] effects ran with
    backendRef,
    calibrationRef,
    pollTimerRef,    \* id of the interval, 0 = null
    pollingBusyRef,
    highlightedRef,
    marked,          \* elements whose classList holds the highlight classes
    timers,          \* live intervals (ids)
    inflight,        \* fetches awaiting their response: [id, loop]
    nextFetch,       \* id of the next fetch
    loopId,          \* number of poll loops started so far
    last             \* the task that ran last: its name, the click() calls it made

vars == << phase, ls, enabled, position, effEnabled, backendRef, calibrationRef,
           pollTimerRef, pollingBusyRef, highlightedRef, marked, timers, inflight,
           nextFetch, loopId, last >>

\* The component's state as one record, so that the handlers compose.
Cur ==
    [ phase |-> phase, ls |-> ls, enabled |-> enabled, position |-> position,
      effEnabled |-> effEnabled, backendRef |-> backendRef,
      calibrationRef |-> calibrationRef, pollTimerRef |-> pollTimerRef,
      pollingBusyRef |-> pollingBusyRef, highlightedRef |-> highlightedRef,
      marked |-> marked, timers |-> timers, inflight |-> inflight,
      nextFetch |-> nextFetch, loopId |-> loopId ]

Commit(s) ==
    /\ phase' = s.phase
    /\ ls' = s.ls
    /\ enabled' = s.enabled
    /\ position' = s.position
    /\ effEnabled' = s.effEnabled
    /\ backendRef' = s.backendRef
    /\ calibrationRef' = s.calibrationRef
    /\ pollTimerRef' = s.pollTimerRef
    /\ pollingBusyRef' = s.pollingBusyRef
    /\ highlightedRef' = s.highlightedRef
    /\ marked' = s.marked
    /\ timers' = s.timers
    /\ inflight' = s.inflight
    /\ nextFetch' = s.nextFetch
    /\ loopId' = s.loopId

\* The component is in state s.
Is(s) ==
    /\ phase = s.phase
    /\ ls = s.ls
    /\ enabled = s.enabled
    /\ position = s.position
    /\ effEnabled = s.effEnabled
    /\ backendRef = s.backendRef
    /\ calibrationRef = s.calibrationRef
    /\ pollTimerRef = s.pollTimerRef
    /\ pollingBusyRef = s.pollingBusyRef
    /\ highlightedRef = s.highlightedRef
    /\ marked = s.marked
    /\ timers = s.timers
    /\ inflight = s.inflight
    /\ nextFetch = s.nextFetch
    /\ loopId = s.loopId

Did(op) == [op |-> op, clicks |-> << >>]

(* ------------------------- React state setters ------------------------- *)
\* A state update of an unmounted component is dropped.
setEnabled(s, v) == IF s.phase = "unmounted" THEN s ELSE [s EXCEPT !.enabled = v]
setPosition(s, p) == IF s.phase = "unmounted" THEN s ELSE [s EXCEPT !.position = p]

(* ----------------------------- highlight ------------------------------- *)
clearHighlight(s) ==
    IF s.highlightedRef # NULL
    THEN [s EXCEPT !.marked = @ \ {s.highlightedRef}, !.highlightedRef = NULL]
    ELSE s

\* Mutant: applying the element that is already highlighted takes its marker off.
applyHighlight_ToggleOff(s, element) ==
    IF s.highlightedRef = element THEN clearHighlight(s)
    ELSE IF element = NULL THEN clearHighlight(s)
    ELSE LET c == clearHighlight(s)
         IN  [c EXCEPT !.highlightedRef = element, !.marked = @ \cup {element}]

\* Mutant: the previous element keeps its marker when another one is highlighted.
applyHighlight_NoClear(s, element) ==
    IF s.highlightedRef = element THEN s
    ELSE IF element = NULL THEN clearHighlight(s)
    ELSE [s EXCEPT !.highlightedRef = element, !.marked = @ \cup {element}]

applyHighlight(s, element) ==
    IF s.highlightedRef = element THEN s
    ELSE IF element = NULL THEN clearHighlight(s)
    ELSE LET c == clearHighlight(s)
         IN  [c EXCEPT !.highlightedRef = element, !.marked = @ \cup {element}]

(* ---------------------------- syncFromStorage -------------------------- *)
syncFromStorage(s) ==
    LET s1 == [s EXCEPT !.backendRef = s.ls.backend]
        calibrationRaw == s.ls.calibration
        parsed == JSONParse(calibrationRaw)
    IN  IF calibrationRaw # NULL /\ ~parsed.ok
        THEN \* catch (error)
             clearHighlight(setPosition(setEnabled(s1, FALSE), NoPosition))
        ELSE LET s2 == [s1 EXCEPT !.calibrationRef =
                            IF calibrationRaw # NULL THEN parsed.value ELSE NoCalibration]
                 overlayEnabled == s.ls.enabled = "true"
                 canEnable == overlayEnabled /\ s2.backendRef # NULL
                 s3 == setEnabled(s2, canEnable)
             IN  IF ~canEnable
                 THEN clearHighlight(setPosition(s3, NoPosition))
                 ELSE s3


(* --------------------------- coordinate mapping ------------------------ *)
\* Mutant: the normalized pupil is preferred to the calibrated position.
RawPoint_PupilFirst(data, calibration, innerWidth, innerHeight) ==
    IF data.normalized_pupil # Absent
    THEN Point(Mul(data.normalized_pupil.x, Int2Num(innerWidth)),
               Mul(data.normalized_pupil.y, Int2Num(innerHeight)))
    ELSE IF data.calibrated_position # Absent /\ calibration # NoCalibration
    THEN LET scaleX == Div(Int2Num(innerWidth), calibration.width)
             scaleY == Div(Int2Num(innerHeight), calibration.height)
         IN  Point(Mul(data.calibrated_position.x, scaleX),
                   Mul(data.calibrated_position.y, scaleY))
    ELSE Absent

\* px, py of pollGaze: Absent stands for px === null.
RawPoint(data, calibration, innerWidth, innerHeight) ==
    IF data.calibrated_position # Absent /\ calibration # NoCalibration
    THEN LET scaleX == Div(Int2Num(innerWidth), calibration.width)
             scaleY == Div(Int2Num(innerHeight), calibration.height)
         IN  Point(Mul(data.calibrated_position.x, scaleX),
                   Mul(data.calibrated_position.y, scaleY))
    ELSE IF data.normalized_pupil # Absent
    THEN Point(Mul(data.normalized_pupil.x, Int2Num(innerWidth)),
               Mul(data.normalized_pupil.y, Int2Num(innerHeight)))
    ELSE Absent

\* The test that ends the tick without a point.
NoSignal(raw) == raw = Absent \/ IsNaN(raw.x) \/ IsNaN(raw.y)

\* Mutant: the lower margin is not enforced.
Clamp_NoFloor(v, dimension) == MathMin(Int2Num(dimension - Margin), v)

\* Math.max(12, Math.min(dimension - 12, v))
Clamp(v, dimension) ==
    MathMax(Int2Num(Margin), MathMin(Int2Num(dimension - Margin), v))

\* The DotPosition a response body yields: null or the clamped point.
MapPoint(data, calibration, innerWidth, innerHeight) ==
    LET raw == RawPoint(data, calibration, innerWidth, innerHeight)
    IN  IF NoSignal(raw) THEN NoPosition
        ELSE Point(Clamp(raw.x, innerWidth), Clamp(raw.y, innerHeight))

(* -------------------------------- pollGaze ----------------------------- *)
\* Mutant: the busy flag is raised before the backend URL is looked at.
pollGazeStart_BusyBeforeUrlCheck(s, renderEnabled, loop) ==
    IF ~renderEnabled \/ s.pollingBusyRef THEN s
    ELSE IF s.backendRef = NULL
    THEN [setEnabled(s, FALSE) EXCEPT !.pollingBusyRef = TRUE]
    ELSE IF UrlThrows(s.backendRef)
    THEN [applyHighlight(setPosition(s, NoPosition), NULL) EXCEPT !.pollingBusyRef = FALSE]
    ELSE [s EXCEPT !.pollingBusyRef = TRUE,
                   !.inflight = @ \cup {[id |-> s.nextFetch, loop |-> loop]},
                   !.nextFetch = @ + 1]

\* pollGaze up to its first await.  renderEnabled is the enabled the closure
\* captured; loop names the loop instance whose effect created the closure.
pollGazeStart(s, renderEnabled, loop) ==
    IF ~renderEnabled \/ s.pollingBusyRef THEN s
    ELSE IF s.backendRef = NULL THEN setEnabled(s, FALSE)
    ELSE IF UrlThrows(s.backendRef)
    THEN \* new URL throws inside the try: catch, then finally
         [applyHighlight(setPosition(s, NoPosition), NULL) EXCEPT !.pollingBusyRef = FALSE]
    ELSE [s EXCEPT !.pollingBusyRef = TRUE,
                   !.inflight = @ \cup {[id |-> s.nextFetch, loop |-> loop]},
                   !.nextFetch = @ + 1]

\* Mutant: the return on invalid data skips the release of the busy flag.
pollGazeResolved_NoSignalKeepsBusy(s, data, innerWidth, innerHeight, target) ==
    LET point == MapPoint(data, s.calibrationRef, innerWidth, innerHeight)
    IN  IF point = NoPosition
        THEN applyHighlight(setPosition(s, NoPosition), NULL)
        ELSE [applyHighlight(setPosition(s, point), target) EXCEPT !.pollingBusyRef = FALSE]

\* pollGaze after a response with ok status and body data; target is what
\* elementFromPoint(...).closest("[data-gaze-activate]") finds at the point.
pollGazeResolved(s, data, innerWidth, innerHeight, target) ==
    LET point == MapPoint(data, s.calibrationRef, innerWidth, innerHeight)
        s1 == IF point = NoPosition
              THEN applyHighlight(setPosition(s, NoPosition), NULL)
              ELSE applyHighlight(setPosition(s, point), target)
    IN  [s1 EXCEPT !.pollingBusyRef = FALSE]

\* Mutant: the busy flag is released on success only, not in a finally.
pollGazeFailed_KeepsBusy(s) == applyHighlight(setPosition(s, NoPosition), NULL)

\* Mutant: the catch leaves the displayed point as it was.
pollGazeFailed_KeepsPoint(s) ==
    [applyHighlight(s, NULL) EXCEPT !.pollingBusyRef = FALSE]

\* pollGaze after fetch rejected, response.ok was false or response.json() threw.
pollGazeFailed(s) ==
    [applyHighlight(setPosition(s, NoPosition), NULL) EXCEPT !.pollingBusyRef = FALSE]

(* -------------------------------- effects ------------------------------ *)
\* Mutant: the ref is reset but the interval is not cleared.
clearPollTimer_RefOnly(s) ==
    IF s.pollTimerRef # 0 THEN [s EXCEPT !.pollTimerRef = 0] ELSE s

\* if (pollTimerRef.current) { clearInterval(...); pollTimerRef.current = null }
clearPollTimer(s) ==
    IF s.pollTimerRef # 0
    THEN [s EXCEPT !.timers = @ \ {s.pollTimerRef}, !.pollTimerRef = 0]
    ELSE s

\* The polling effect run with enabled = false.
pollEffectDisabled(s) ==
    clearHighlight(setPosition([clearPollTimer(s) EXCEPT !.pollingBusyRef = FALSE],
                               NoPosition))

\* The polling effect run with enabled = true: pollGaze(), then setInterval.
pollEffectEnabled(s) ==
    LET id == s.loopId + 1
        s1 == pollGazeStart(s, TRUE, id)
    IN  [s1 EXCEPT !.pollTimerRef = id, !.timers = @ \cup {id}, !.loopId = id]

\* The cleanup the polling effect returned when it ran with enabled = true.
pollEffectCleanup(s) ==
    [clearPollTimer(s) EXCEPT !.pollingBusyRef = FALSE]

\* The cleanup of the mount effect (the listeners go with phase).
mountEffectCleanup(s) == clearHighlight(clearPollTimer(s))


(* ------------------------------- keyboard ------------------------------ *)
\* Mutant: only auto-repeat is filtered, the target's tag is not looked at.
handleKeyDown_NoTagFilter(s, event, repeat, tagName) ==
    IF repeat THEN [s |-> s, clicks |-> << >>]
    ELSE IF event.code = "Space" \/ event.key = " "
    THEN [s |-> s,
          clicks |-> IF s.highlightedRef # NULL THEN << s.highlightedRef >> ELSE << >>]
    ELSE IF event.key = "Escape"
    THEN [s |-> syncFromStorage([s EXCEPT !.ls.enabled = NULL]), clicks |-> << >>]
    ELSE [s |-> s, clicks |-> << >>]

\* Mutant: Escape removes the stored flag without dispatching the overlay event.
handleKeyDown_NoDispatch(s, event, repeat, tagName) ==
    IF repeat THEN [s |-> s, clicks |-> << >>]
    ELSE IF tagName \in {"INPUT", "TEXTAREA"} THEN [s |-> s, clicks |-> << >>]
    ELSE IF event.code = "Space" \/ event.key = " "
    THEN [s |-> s,
          clicks |-> IF s.highlightedRef # NULL THEN << s.highlightedRef >> ELSE << >>]
    ELSE IF event.key = "Escape"
    THEN [s |-> [s EXCEPT !.ls.enabled = NULL], clicks |-> << >>]
    ELSE [s |-> s, clicks |-> << >>]

\* Mutant: Space clicks the highlighted element on auto-repeat too.
handleKeyDown_RepeatClicks(s, event, repeat, tagName) ==
    IF tagName \in {"INPUT", "TEXTAREA"} THEN [s |-> s, clicks |-> << >>]
    ELSE IF event.code = "Space" \/ event.key = " "
    THEN [s |-> s,
          clicks |-> IF s.highlightedRef # NULL THEN << s.highlightedRef >> ELSE << >>]
    ELSE IF repeat THEN [s |-> s, clicks |-> << >>]
    ELSE IF event.key = "Escape"
    THEN [s |-> syncFromStorage([s EXCEPT !.ls.enabled = NULL]), clicks |-> << >>]
    ELSE [s |-> s, clicks |-> << >>]

\* handleKeyDown: the new state and the elements whose click() it called.
handleKeyDown(s, event, repeat, tagName) ==
    IF repeat THEN [s |-> s, clicks |-> << >>]
    ELSE IF tagName \in {"INPUT", "TEXTAREA"} THEN [s |-> s, clicks |-> << >>]
    ELSE IF event.code = "Space" \/ event.key = " "
    THEN [s |-> s,
          clicks |-> IF s.highlightedRef # NULL THEN << s.highlightedRef >> ELSE << >>]
    ELSE IF event.key = "Escape"
    THEN \* removeItem, then dispatchEvent runs handleOverlayEvent synchronously
         [s |-> syncFromStorage([s EXCEPT !.ls.enabled = NULL]), clicks |-> << >>]
    ELSE [s |-> s, clicks |-> << >>]

\* How the claims name a key-down, from the event alone.
KeyClass(event, repeat, tagName) ==
    IF repeat \/ tagName \in {"INPUT", "TEXTAREA"} THEN "filtered"
    ELSE IF event.key = " " THEN "space"
    ELSE IF event.key = "Escape" THEN "escape"
    ELSE "other"

(* -------------------------------- actions ------------------------------ *)
\* The component as constructed (useState and useRef initial values), over a
\* localStorage holding stored.
Constructed(stored) ==
    [ phase |-> "init", ls |-> stored, enabled |-> FALSE, position |-> NoPosition,
      effEnabled |-> FALSE, backendRef |-> NULL, calibrationRef |-> NoCalibration,
      pollTimerRef |-> 0, pollingBusyRef |-> FALSE, highlightedRef |-> NULL,
      marked |-> {}, timers |-> {}, inflight |-> {}, nextFetch |-> 1, loopId |-> 0 ]

Init ==
    /\ \E stored \in [backend : {NULL, GoodUrl}, calibration : {NULL, CalJsonA},
                       enabled : {NULL, "true"}] :
         Is(Constructed(stored))
    /\ last = Did("init")

\* First commit: the mount effect (syncFromStorage, listeners), then the polling
\* and keyboard effects of the first render, whose enabled is false.
Mount ==
    /\ phase = "init"
    /\ Commit(pollEffectDisabled(syncFromStorage([Cur EXCEPT !.phase = "mounted"])))
    /\ last' = Did("mount")

\* The settings UI (this tab or another) stores or removes one item.
ExternalWrite ==
    /\ phase # "unmounted"
    /\ \E item \in {"backend", "calibration", "enabled"} :
         \E v \in {NULL} \cup (CASE item = "backend" -> BackendValues
                                 [] item = "calibration" -> CalibrationValues
                                 [] OTHER -> EnabledValues) :
            /\ ls[item] # v
            /\ ls' = [ls EXCEPT ![item] = v]
    /\ last' = Did("other")
    /\ UNCHANGED << phase, enabled, position, effEnabled, backendRef, calibrationRef,
                    pollTimerRef, pollingBusyRef, highlightedRef, marked, timers,
                    inflight, nextFetch, loopId >>

\* handleStorage: a storage event of another tab, for one of the three keys or
\* for some other key.
StorageEvent ==
    /\ phase = "mounted"
    /\ \E watched \in BOOLEAN :
         /\ Commit(IF watched THEN syncFromStorage(Cur) ELSE Cur)
         /\ last' = Did(IF watched THEN "sync" ELSE "other")

\* handleOverlayEvent
OverlayEvent ==
    /\ phase = "mounted"
    /\ Commit(syncFromStorage(Cur))
    /\ last' = Did("sync")

\* Commit of a render with enabled = true after one with enabled = false: the
\* polling effect starts a loop, the keyboard effect adds its listener.
EnableEffects ==
    /\ phase = "mounted"
    /\ enabled /\ ~effEnabled
    /\ loopId < MaxLoops
    /\ LET s == [pollEffectEnabled(Cur) EXCEPT !.effEnabled = TRUE]
       IN  /\ s.nextFetch <= MaxFetches + 1
           /\ Commit(s)
    /\ last' = Did("enable")

\* Commit of a render with enabled = false after one with enabled = true: the
\* cleanups of the polling and keyboard effects, then the polling effect.
DisableEffects ==
    /\ phase = "mounted"
    /\ ~enabled /\ effEnabled
    /\ Commit([pollEffectDisabled(pollEffectCleanup(Cur)) EXCEPT !.effEnabled = FALSE])
    /\ last' = Did("disable")

\* The interval fires: pollGaze of the loop that created it.  The closure comes
\* from a render with enabled = true (the effect returns before defining it
\* otherwise), so its own enabled test never stops it.
Tick ==
    /\ \E t \in timers :
         LET s == pollGazeStart(Cur, TRUE, t)
         IN  /\ s.nextFetch <= MaxFetches + 1
             /\ Commit(s)
    /\ last' = Did("tick")

\* A fetch resolves with an ok response and a JSON body.
FetchResolved ==
    /\ \E f \in inflight, data \in Samples, vp \in Viewports,
          target \in Elements \cup {NULL} :
         Commit(pollGazeResolved([Cur EXCEPT !.inflight = @ \ {f}],
                                 data, vp[1], vp[2], target))
    /\ last' = Did("resolved")

\* A fetch rejects, or its response is not ok, or its body is no JSON.
FetchFailed ==
    /\ \E f \in inflight :
         Commit(pollGazeFailed([Cur EXCEPT !.inflight = @ \ {f}]))
    /\ last' = Did("failed")

\* A key-down reaches the window listener of the keyboard effect.
KeyDown ==
    /\ phase = "mounted"
    /\ effEnabled
    /\ \E event \in KeyEvents, repeat \in BOOLEAN, tagName \in TargetTags :
         LET r == handleKeyDown(Cur, event, repeat, tagName)
         IN  /\ Commit(r.s)
             /\ last' = [op |-> KeyClass(event, repeat, tagName), clicks |-> r.clicks]

\* The component unmounts: the cleanups of the three effects.
Unmount ==
    /\ phase = "mounted"
    /\ LET s1 == mountEffectCleanup(Cur)
           s2 == IF effEnabled THEN pollEffectCleanup(s1) ELSE s1
       IN  Commit([s2 EXCEPT !.phase = "unmounted"])
    /\ last' = Did("unmount")

Next ==
    \/ Mount
    \/ ExternalWrite
    \/ StorageEvent
    \/ OverlayEvent
    \/ EnableEffects
    \/ DisableEffects
    \/ Tick
    \/ FetchResolved
    \/ FetchFailed
    \/ KeyDown
    \/ Unmount

Spec == Init /\ [][Next]_vars


(* ======================= polling and highlight ========================= *)
FetchIds(fs) == { f.id : f \in fs }

\* C1: single-flight per loop instance: at every moment each loop instance has
\* at most one fetch outstanding (a tick that fires while a fetch of its loop is
\* unresolved starts none).
C1_SingleFlightPerLoop ==
    \A f \in inflight, g \in inflight : f.loop = g.loop => f = g

\* C2: a stale result is never applied: while the overlay is disabled (enabled
\* false and the disable committed) the displayed point is null and no element
\* is highlighted, whatever fetch resolves meanwhile.
C2_NoStaleResult ==
    (phase = "mounted" /\ ~enabled /\ ~effEnabled)
        => (position = NoPosition /\ highlightedRef = NULL /\ marked = {})

\* C3: results are applied in send order: when the result of a fetch is applied,
\* no fetch started after it has had its result applied already.
C3_AppliedInSendOrder ==
    [][ \A f \in inflight \ inflight' :
          \A i \in (f.id + 1) .. (nextFetch - 1) : i \in FetchIds(inflight) ]_vars

\* C4: highlight exclusivity: at most one element carries the highlight marker,
\* and it is the element highlightedRef holds.
C4_HighlightExclusive ==
    /\ Cardinality(marked) <= 1
    /\ marked = (IF highlightedRef = NULL THEN {} ELSE {highlightedRef})

\* A fetch continuation has just moved the highlight onto e2.
C4_Witness ==
    /\ last.op = "resolved"
    /\ highlightedRef = "e2"
    /\ marked = {"e2"}


(* ========================= keyboard and settings ======================= *)
\* C5: a key-down of Escape that passes the filter removes the stored enabled
\* flag and recomputes the settings: enabled is false, the displayed point null
\* and no element highlighted when the handler returns; and when the disable is
\* committed, the interval is cancelled (no timer is left to tick), with the
\* point null and no element highlighted.  (Tick needs a member of timers.)
C5_EscapeDisables ==
    /\ [][ last'.op = "escape"
            => /\ ls'.enabled = NULL
               /\ ~enabled'
               /\ position' = NoPosition
               /\ highlightedRef' = NULL /\ marked' = {} ]_vars
    /\ [][ last'.op = "disable"
            => /\ ~enabled' /\ ~effEnabled'
               /\ pollTimerRef' = 0 /\ timers' = {}
               /\ position' = NoPosition
               /\ highlightedRef' = NULL /\ marked' = {} ]_vars

\* Escape was pressed while the loop ran: the handler has returned with a fetch
\* still in flight and the interval still live, the disable not yet committed.
C5_Witness ==
    /\ last.op = "escape"
    /\ effEnabled /\ ~enabled
    /\ timers # {}
    /\ inflight # {}

\* C6: a key-down of Space that passes the filter calls click() exactly once on
\* the highlighted element, and on nothing when no element is highlighted, in
\* which case no state changes; no other task calls click().
C6_SpaceActivates ==
    [][ /\ last'.op = "space"
            => /\ last'.clicks = (IF highlightedRef # NULL
                                  THEN << highlightedRef >> ELSE << >>)
               /\ highlightedRef = NULL =>
                    UNCHANGED << phase, ls, enabled, position, effEnabled, backendRef,
                                 calibrationRef, pollTimerRef, pollingBusyRef,
                                 highlightedRef, marked, timers, inflight, nextFetch,
                                 loopId >>
        /\ last'.op # "space" => last'.clicks = << >> ]_vars

\* Space was pressed with e1 highlighted: one click on e1.
C6_Witness ==
    /\ last.op = "space"
    /\ highlightedRef = "e1"
    /\ last.clicks = << "e1" >>

\* C7: a settings recomputation that finds a calibration text that does not
\* decode treats it as no calibration: the held calibration becomes null and
\* enabled is (stored flag is "true" and a backend URL is stored).
C7_DecodeFailureIsNoCalibration ==
    [][ (last'.op \in {"sync", "escape"} /\ ls'.calibration = CalGarbage)
            => /\ calibrationRef' = NoCalibration
               /\ enabled' = (ls'.enabled = "true" /\ ls'.backend # NULL) ]_vars


(* ========================== coordinate mapping ========================= *)
\* A specification that exercises the mapping of pollGaze over wider inputs: it
\* starts from the overlay enabled at mount, its first fetch in flight, and lets
\* fetches resolve and ticks start the next one.
MapCalibrationTexts == {NULL, CalJsonA, CalJsonZero}
MapViewports == { <<1920, 1080>>, <<20, 30>> }
Half == Rat(1, 2)
MapSamples ==
    { Sample(cp, np) :
        cp \in { Absent,
                 Point(Int2Num(640), Int2Num(360)),
                 Point(Int2Num(0), Int2Num(0)),
                 Point(Int2Num(-640), Int2Num(100000)) },
        np \in { Absent,
                 Point(Int2Num(0), Int2Num(0)),
                 Point(Half, Int2Num(1)),
                 Point(NaN, Half) } }

InitMap ==
    /\ \E text \in MapCalibrationTexts :
         LET stored == [backend |-> GoodUrl, calibration |-> text, enabled |-> "true"]
             mounted == pollEffectDisabled(syncFromStorage(
                            [Constructed(stored) EXCEPT !.phase = "mounted"]))
         IN  Is([pollEffectEnabled(mounted) EXCEPT !.effEnabled = TRUE])
    /\ last = Did("enable")

\* FetchResolved over the wider inputs, which it records.
MapResolved ==
    /\ \E f \in inflight, data \in MapSamples, vp \in MapViewports,
          target \in Elements \cup {NULL} :
         /\ Commit(pollGazeResolved([Cur EXCEPT !.inflight = @ \ {f}],
                                    data, vp[1], vp[2], target))
         /\ last' = [op |-> "mapped", clicks |-> << >>, data |-> data,
                     innerWidth |-> vp[1], innerHeight |-> vp[2], target |-> target]

NextMap ==
    \/ Tick
    \/ MapResolved

SpecMap == InitMap /\ [][NextMap]_vars

\* The coordinates the last resolved tick computed before clamping.
LastRaw == RawPoint(last.data, calibrationRef, last.innerWidth, last.innerHeight)

\* C8: a tick whose computed x or y is not a finite number (NaN, +Infinity,
\* -Infinity) yields no signal: the displayed point is null and the highlight
\* cleared.
C8_NonFiniteIsNoSignal ==
    (last.op = "mapped" /\ LastRaw # Absent
                        /\ (~IsFinite(LastRaw.x) \/ ~IsFinite(LastRaw.y)))
        => (position = NoPosition /\ highlightedRef = NULL /\ marked = {})

\* C9: every non-null point a tick displays has 12 <= x <= innerWidth - 12 and
\* 12 <= y <= innerHeight - 12, for every positive viewport.
C9_WithinMargins ==
    (last.op = "mapped" /\ position # NoPosition)
        => /\ Leq(Int2Num(12), position.x)
           /\ Leq(position.x, Int2Num(last.innerWidth - 12))
           /\ Leq(Int2Num(12), position.y)
           /\ Leq(position.y, Int2Num(last.innerHeight - 12))

Larger(i, j) == IF i < j THEN j ELSE i

\* C9 (amended): every non-null point a tick displays has
\* 12 <= x <= max(12, innerWidth - 12) and 12 <= y <= max(12, innerHeight - 12);
\* the upper bounds are innerWidth - 12 and innerHeight - 12 whenever the
\* viewport is at least 24 wide and high.
C9_WithinMarginsOrAtFloor ==
    (last.op = "mapped" /\ position # NoPosition)
        => /\ IsFinite(position.x) /\ IsFinite(position.y)
           /\ Leq(Int2Num(12), position.x)
           /\ Leq(position.x, Int2Num(Larger(12, last.innerWidth - 12)))
           /\ Leq(Int2Num(12), position.y)
           /\ Leq(position.y, Int2Num(Larger(12, last.innerHeight - 12)))

\* A point was displayed in the viewport that is narrower than two margins: x at
\* the floor, above innerWidth - 12, and y clamped to innerHeight - 12.
C9_Witness ==
    /\ last.op = "mapped"
    /\ last.innerWidth = 20 /\ last.innerHeight = 30
    /\ position = Point(Int2Num(12), Int2Num(18))


\* What C10 states for the coordinates before clamping: the calibrated position
\* scaled by viewport over calibration when both are held, else the normalized
\* pupil scaled by the viewport.
C10_Scaled(data, calibration, innerWidth, innerHeight) ==
    IF data.calibrated_position # Absent /\ calibration # NoCalibration
    THEN Point(Div(Mul(data.calibrated_position.x, Int2Num(innerWidth)),
                   calibration.width),
               Div(Mul(data.calibrated_position.y, Int2Num(innerHeight)),
                   calibration.height))
    ELSE IF data.normalized_pupil # Absent
    THEN Point(Mul(data.normalized_pupil.x, Int2Num(innerWidth)),
               Mul(data.normalized_pupil.y, Int2Num(innerHeight)))
    ELSE Absent

\* v brought into [12, dimension - 12], for dimension >= 24.
C10_Into(v, dimension) ==
    IF Less(v, Int2Num(12)) THEN Int2Num(12)
    ELSE IF Less(Int2Num(dimension - 12), v) THEN Int2Num(dimension - 12)
    ELSE v

\* C10: mapping correctness: with a calibrated position and a held calibration
\* {w,h} the displayed point is (x*W/w, y*H/h), else with a normalized pupil it
\* is (x*W, y*H), each axis clamped to [12, dimension - 12] (wherever these are
\* numbers and the viewport is at least 24 wide and high); 1920x1080 with
\* calibration 1280x720 maps calibrated (640,360) to (960,540), and normalized
\* (0,0) without a calibrated position to (12,12).
C10_MappingCorrect ==
    last.op = "mapped" =>
        LET e == C10_Scaled(last.data, calibrationRef, last.innerWidth, last.innerHeight)
            big == last.innerWidth = 1920 /\ last.innerHeight = 1080
        IN  /\ (e # Absent /\ ~IsNaN(e.x) /\ ~IsNaN(e.y)
                  /\ last.innerWidth >= 24 /\ last.innerHeight >= 24)
                => position = Point(C10_Into(e.x, last.innerWidth),
                                    C10_Into(e.y, last.innerHeight))
            /\ (big /\ calibrationRef = Cal(Int2Num(1280), Int2Num(720))
                    /\ last.data.calibrated_position = Point(Int2Num(640), Int2Num(360)))
                => position = Point(Int2Num(960), Int2Num(540))
            /\ (big /\ last.data.calibrated_position = Absent
                    /\ last.data.normalized_pupil = Point(Int2Num(0), Int2Num(0)))
                => position = Point(Int2Num(12), Int2Num(12))

\* A sample holding both a calibrated position and a normalized pupil was mapped
\* through the held calibration.
C10_Witness ==
    /\ last.op = "mapped"
    /\ last.data = Sample(Point(Int2Num(640), Int2Num(360)), Point(Half, Int2Num(1)))
    /\ calibrationRef = Cal(Int2Num(1280), Int2Num(720))
    /\ last.innerWidth = 1920
    /\ position = Point(Int2Num(960), Int2Num(540))


\* C14: applyHighlight(x) followed at once by applyHighlight(x) leaves the
\* current target and the set of marked elements exactly as the first call left
\* them (with x the target), for every element or null x and every state the
\* first call starts in.
C14_ApplyTwiceIsApplyOnce ==
    \A x \in Elements \cup {NULL} :
        LET once == applyHighlight(Cur, x)
        IN  /\ applyHighlight(once, x) = once
            /\ once.highlightedRef = x

\* A resolved tick applied e1, which another element or none held before or
\* which was held already; applying e1 again finds it highlighted.
C14_Witness ==
    /\ last.op = "mapped" /\ last.target = "e1"
    /\ highlightedRef = "e1" /\ marked = {"e1"}
    /\ applyHighlight(Cur, "e1") = Cur
    /\ applyHighlight(Cur, "e2") # Cur


(* ====================== failures, teardown, filters ==================== *)
\* C11: a cycle whose fetch fails (rejection or non-ok status, both caught by
\* the same catch) leaves no signal: the displayed point is null and the
\* highlight cleared; nothing else is touched: enabled, the committed effects
\* and the interval stay as they were, and the busy flag is released.
C11_FailureIsNoSignal ==
    [][ last'.op = "failed"
          => /\ phase' = "mounted" => position' = NoPosition
             /\ highlightedRef' = NULL /\ marked' = {}
             /\ ~pollingBusyRef'
             /\ UNCHANGED << phase, ls, enabled, effEnabled, backendRef, calibrationRef,
                             pollTimerRef, timers, nextFetch, loopId >> ]_vars

\* A fetch of the running loop failed: the overlay is still enabled, its
\* interval still live.
C11_Witness ==
    /\ last.op = "failed"
    /\ phase = "mounted" /\ enabled /\ effEnabled
    /\ timers # {}
    /\ inflight = {}
    /\ position = NoPosition /\ highlightedRef = NULL


\* C13: once the component is torn down the interval is cancelled, no element
\* is highlighted, and both stay so through every later event, the resolution
\* of a fetch that was in flight at teardown included.
C13_TeardownStaysClean ==
    phase = "unmounted"
        => /\ timers = {} /\ pollTimerRef = 0
           /\ highlightedRef = NULL /\ marked = {}


\* C15: no fetch is started while the held backend URL is absent: a cycle that
\* gets past the busy test and finds no backend URL starts no fetch, leaves the
\* busy flag down and leaves enabled false, so that the disable commit, which
\* cancels the interval, is what follows.
C15_NoFetchWithoutBackendUrl ==
    [][ /\ inflight' \ inflight # {} => backendRef # NULL /\ backendRef' # NULL
        /\ (last'.op = "tick" /\ backendRef = NULL /\ ~pollingBusyRef)
              => /\ inflight' = inflight /\ nextFetch' = nextFetch
                 /\ ~pollingBusyRef'
                 /\ ~enabled'
                 /\ effEnabled' /\ phase' = "mounted" ]_vars

\* The backend URL was removed while the loop ran; before the disable commit a
\* tick found no URL.
C15_Witness ==
    /\ last.op = "tick"
    /\ backendRef = NULL /\ ls.backend = NULL
    /\ phase = "mounted" /\ ~enabled /\ effEnabled
    /\ timers # {} /\ inflight = {} /\ ~pollingBusyRef /\ nextFetch = 2


\* The polling effect last ran with enabled = false, or everything is torn down.
LoopStopped == phase = "unmounted" \/ ~effEnabled

C17_BusyWhileFetchOfRunningLoop ==
    (~LoopStopped /\ \E f \in inflight : f.loop = pollTimerRef) => pollingBusyRef


\* C18: a key-down that is an auto-repeat, or whose target is an INPUT or a
\* TEXTAREA, changes nothing whatever the key (Space and Escape included): no
\* element is clicked, the stored enabled flag stays, no overlay event runs
\* syncFromStorage, and the highlight and everything else is as before.
C18_FilteredKeyChangesNothing ==
    [][ last'.op = "filtered"
          => /\ last'.clicks = << >>
             /\ UNCHANGED << phase, ls, enabled, position, effEnabled, backendRef,
                             calibrationRef, pollTimerRef, pollingBusyRef,
                             highlightedRef, marked, timers, inflight, nextFetch,
                             loopId >> ]_vars

\* A filtered key-down arrived while an element was highlighted and the flag
\* stored: Space would have clicked e1, Escape would have removed the flag.
C18_Witness ==
    /\ last.op = "filtered"
    /\ phase = "mounted" /\ enabled /\ effEnabled
    /\ ls.enabled = "true"
    /\ highlightedRef = "e1" /\ marked = {"e1"}
    /\ position # NoPosition


\* C19: the busy flag is never stuck: whenever busy is true at least one fetch
\* is still outstanding.
C19_BusyHasFetchOutstanding ==
    pollingBusyRef => inflight # {}

\* A tick ended without a signal (invalid data or a failure) and released the
\* flag; the next tick started fetch 2, which is outstanding with busy up.
C19_Witness ==
    /\ last.op = "tick"
    /\ pollingBusyRef
    /\ inflight = {[id |-> 2, loop |-> 1]}
    /\ position = NoPosition /\ highlightedRef = NULL


\* C20: when the enable effect has just started a loop the displayed point is
\* null and no element is highlighted (and so the indicator never shows a point
\* that came from a fetch started before that enable).
C20_EnableStartsBlank ==
    last.op = "enable" => position = NoPosition /\ highlightedRef = NULL /\ marked = {}


(* =============================== liveness ============================== *)
\* The running loop under the scheduling the browser gives it: the overlay was
\* enabled at mount and stays enabled; the interval keeps firing, every fetch
\* is answered or fails, and the settings UI may store another backend URL (and
\* dispatch the overlay event), among them one that new URL rejects as a base.
BadUrl == "192.168.1.5:5000"
LiveBackendValues == {GoodUrl, BadUrl}

InitLive ==
    /\ \E url \in LiveBackendValues, text \in {NULL, CalJsonA} :
         LET stored == [backend |-> url, calibration |-> text, enabled |-> "true"]
             mounted == pollEffectDisabled(syncFromStorage(
                            [Constructed(stored) EXCEPT !.phase = "mounted"]))
         IN  Is([pollEffectEnabled(mounted) EXCEPT !.effEnabled = TRUE])
    /\ last = Did("enable")

\* setItem(BACKEND_URL_STORAGE_KEY, url) by the settings UI of this tab, which
\* then dispatches the overlay event: handleOverlayEvent runs.
BackendWrite ==
    /\ phase = "mounted"
    /\ \E url \in LiveBackendValues \ {ls.backend} :
         Commit(syncFromStorage([Cur EXCEPT !.ls.backend = url]))
    /\ last' = Did("sync")

NextLive ==
    \/ Tick
    \/ FetchResolved
    \/ FetchFailed
    \/ BackendWrite

SpecLive ==
    /\ InitLive
    /\ [][NextLive]_vars
    /\ WF_vars(Tick)
    /\ WF_vars(FetchResolved \/ FetchFailed)

LoopRuns == phase = "mounted" /\ enabled /\ effEnabled /\ backendRef # NULL

\* C12: self-healing: while the overlay stays enabled with a backend URL, the
\* busy flag never stays true forever, and whenever it is false a later tick
\* starts a new fetch (for as many fetches as the model allows).
C12_SelfHealing ==
    /\ pollingBusyRef ~> ~pollingBusyRef
    /\ \A n \in 1 .. MaxFetches :
         (LoopRuns /\ ~pollingBusyRef /\ nextFetch = n) ~> (nextFetch > n)

\* C12 (amended): the same, while the held backend URL is one that new URL
\* accepts as a base: with any other URL every tick ends in the catch, shows no
\* signal and starts no fetch.
C12_SelfHealingValidUrl ==
    /\ pollingBusyRef ~> ~pollingBusyRef
    /\ \A n \in 1 .. MaxFetches :
         (LoopRuns /\ ~UrlThrows(backendRef) /\ ~pollingBusyRef /\ nextFetch = n)
            ~> (nextFetch > n \/ UrlThrows(backendRef))

\* After two fetches were answered, a tick has started the third.
C12_Witness ==
    /\ last.op = "tick"
    /\ LoopRuns /\ ~UrlThrows(backendRef)
    /\ pollingBusyRef
    /\ nextFetch = 4
    /\ inflight = {[id |-> 3, loop |-> 1]}

====
